---- MODULE Spec2Model ----
(***************************************************************************)
(* A model of the fixed-point sine wave generator: the Q-format            *)
(* arithmetic (fixtypes.c, fixmath), the modulated sine msin_sq015         *)
(* (fixtrig.c), and the generator descriptor with its postprocessor        *)
(* (gen_init .. gen_pp_lookahead, sqrt_ui16).                              *)
(*                                                                         *)
(* Container codes are modelled as integers.  A value stored in a 16-bit   *)
(* unsigned container is reduced with UI16, one stored in a 16-bit signed  *)
(* container with SI16 (the two's complement wrap gcc performs, the        *)
(* compiler the Makefile names).  Operands of C expressions are promoted   *)
(* to int (32 bits under that compiler), so a difference of two 16-bit     *)
(* unsigned fields is an ordinary, possibly negative, integer.             *)
(***************************************************************************)
EXTENDS Integers, Sequences, FiniteSets, TLC

VARIABLES
    gen,        \* descriptor of the single-generator application
    gen1,       \* dual application: generator with postprocessing disabled
    gen2,       \* dual application: generator with postprocessing enabled
    last,       \* the last procedure called on gen: [op, arg]
    aborted,    \* TRUE once an assert() has failed (the process is gone)
    ncall,      \* number of gen_init and gen_set_* calls made on gen so far
    nstep,      \* number of gen_step calls made on gen so far
    run,        \* dual application: [freq, phi, att, cnt, row, head]
    eval        \* one call of a pure function: [f, a, b, r, done]

vars == <<gen, gen1, gen2, last, aborted, ncall, nstep, run, eval>>

-----------------------------------------------------------------------------
(* Integer containers.                                                     *)

UQ016_BIT == 16
UQ016_FRAC == 16
SQ015_FRAC == 15

POW2(x) == 2 ^ x

\* Conversion to ui16_t (unsigned short): reduction modulo 2^16.
UI16(x) == x % POW2(UQ016_BIT)

\* Conversion to si16_t (signed short): two's complement wrap.
SI16(x) ==
    LET u == x % POW2(UQ016_BIT)
    IN  IF u >= POW2(UQ016_BIT - 1) THEN u - POW2(UQ016_BIT) ELSE u

\* Conversion to ui8_t (unsigned char).
UI8(x) == x % 256

-----------------------------------------------------------------------------
(* Fixed-point conversions and multiplication.                             *)

\* sq015_from_uq016: x >> (UQ016_FRAC - SQ015_FRAC); the assertion on the
\* unused container bits cannot fail for a 16-bit argument.
sq015_from_uq016(x) == SI16(UI16(x) \div POW2(UQ016_FRAC - SQ015_FRAC))

SQ015_BIT == 16
SQ021_BIT == 22
UQ121_BIT == 22
UQ022_BIT == 22
SQ021_FRAC == 21
UQ121_FRAC == 21
UQ022_FRAC == 22

\* ((x & SIGN ? ~x : x) & ~MASK) == 0 on a signed container: SIGN is bit
\* (bit - 1) of the two's complement code, ~x is -x - 1, and no bit at or
\* above position bit may be set in the chosen value.
sq_assert(x, bit) ==
    LET sign == (x \div POW2(bit - 1)) % 2 = 1
        y == IF sign THEN -x - 1 ELSE x
    IN  y >= 0 /\ y < POW2(bit)

\* (x & ~MASK) == 0 on an unsigned container.
uq_assert(x, bit) == x >= 0 /\ x < POW2(bit)

\* sq021_from_sq015: (sq021_t)x << 6 in the 32-bit container; for a negative
\* x the build shifts the two's complement code, which multiplies by 64.
sq021_from_sq015_ok(x) == sq_assert(x, SQ015_BIT)

sq021_from_sq015_by_32(x) == x * 32

sq021_from_sq015(x) == x * POW2(SQ021_FRAC - SQ015_FRAC)

\* uq121_from_uq016: (uq121_t)x << 5.
uq121_from_uq016_ok(x) == uq_assert(x, UQ016_BIT)

uq121_from_uq016(x) == x * POW2(UQ121_FRAC - UQ016_FRAC)

\* uq022_from_uq016: (uq022_t)x << 6.
uq022_from_uq016_ok(x) == uq_assert(x, UQ016_BIT)

uq022_from_uq016(x) == x * POW2(UQ022_FRAC - UQ016_FRAC)

\* sq015_from_sq021: x >> 6, an arithmetic shift, returned as sq015_t.
sq015_from_sq021_ok(x) == sq_assert(x, SQ021_BIT)

sq015_from_sq021(x) == SI16(x \div POW2(SQ021_FRAC - SQ015_FRAC))

\* uq016_from_uq022: x >> 6, returned as uq016_t.
uq016_from_uq022_ok(x) == uq_assert(x, UQ022_BIT)

uq016_from_uq022(x) == UI16(x \div POW2(UQ022_FRAC - UQ016_FRAC))

\* uq016_from_sq015: both assertions, then x << 1 returned as uq016_t.
uq016_from_sq015_any_sign(x) == sq_assert(x, SQ015_BIT)

uq016_from_sq015_ok(x) == sq_assert(x, SQ015_BIT) /\ x >= 0

uq016_from_sq015(x) == UI16(x * POW2(UQ016_FRAC - SQ015_FRAC))

\* sq015_from_uq016's assertion.
sq015_from_uq016_ok(x) == uq_assert(x, UQ016_BIT)

\* uq022_from_sq021: both assertions, then x << 1.
uq022_from_sq021_ok(x) == sq_assert(x, SQ021_BIT) /\ x >= 0

uq022_from_sq021(x) == x * POW2(UQ022_FRAC - SQ021_FRAC)

\* sq021_from_uq022: x >> 1.
sq021_from_uq022_ok(x) == uq_assert(x, UQ022_BIT)

sq021_from_uq022(x) == x \div POW2(UQ022_FRAC - SQ021_FRAC)

\* qmul_uq016: ((ui32_t)a * (ui32_t)b) >> UQ016_FRAC, returned as uq016_t.
\* The 32-bit unsigned product never wraps (a, b < 2^16).  It is computed
\* here from the two bytes of a, which gives the same quotient:
\* (ah*256 + al)*b \div 2^16 = (ah*b + (al*b) \div 256) \div 256.
qmul_uq016_high_byte(a, b) == UI16(((a \div 256) * b) \div 256)

qmul_uq016(a, b) ==
    LET ah == a \div 256
        al == a % 256
    IN  UI16((ah * b + ((al * b) \div 256)) \div 256)

-----------------------------------------------------------------------------
(* Trigonometry.                                                           *)

\* Phase-to-sine lookup table, 256 entries; entry key is qsin_lut[key + 1].
qsin_lut == <<
        0,   402,   804,  1206,  1608,  2010,  2412,  2814,
     3216,  3617,  4019,  4420,  4821,  5222,  5623,  6023,
     6424,  6824,  7224,  7623,  8022,  8421,  8820,  9218,
     9616, 10014, 10411, 10808, 11204, 11600, 11996, 12391,
    12785, 13180, 13573, 13966, 14359, 14751, 15143, 15534,
    15924, 16314, 16703, 17091, 17479, 17867, 18253, 18639,
    19024, 19409, 19792, 20175, 20557, 20939, 21320, 21699,
    22078, 22457, 22834, 23210, 23586, 23961, 24335, 24708,
    25080, 25451, 25821, 26190, 26558, 26925, 27291, 27656,
    28020, 28383, 28745, 29106, 29466, 29824, 30182, 30538,
    30893, 31248, 31600, 31952, 32303, 32652, 33000, 33347,
    33692, 34037, 34380, 34721, 35062, 35401, 35738, 36075,
    36410, 36744, 37076, 37407, 37736, 38064, 38391, 38716,
    39040, 39362, 39683, 40002, 40320, 40636, 40951, 41264,
    41576, 41886, 42194, 42501, 42806, 43110, 43412, 43713,
    44011, 44308, 44604, 44898, 45190, 45480, 45769, 46056,
    46341, 46624, 46906, 47186, 47464, 47741, 48015, 48288,
    48559, 48828, 49095, 49361, 49624, 49886, 50146, 50404,
    50660, 50914, 51166, 51417, 51665, 51911, 52156, 52398,
    52639, 52878, 53114, 53349, 53581, 53812, 54040, 54267,
    54491, 54714, 54934, 55152, 55368, 55582, 55794, 56004,
    56212, 56418, 56621, 56823, 57022, 57219, 57414, 57607,
    57798, 57986, 58172, 58356, 58538, 58718, 58896, 59071,
    59244, 59415, 59583, 59750, 59914, 60075, 60235, 60392,
    60547, 60700, 60851, 60999, 61145, 61288, 61429, 61568,
    61705, 61839, 61971, 62101, 62228, 62353, 62476, 62596,
    62714, 62830, 62943, 63054, 63162, 63268, 63372, 63473,
    63572, 63668, 63763, 63854, 63944, 64031, 64115, 64197,
    64277, 64354, 64429, 64501, 64571, 64639, 64704, 64766,
    64827, 64884, 64940, 64993, 65043, 65091, 65137, 65180,
    65220, 65259, 65294, 65328, 65358, 65387, 65413, 65436,
    65457, 65476, 65492, 65505, 65516, 65525, 65531, 65535 >>

COEF_BIT == 6

\* Container code of the UQ0.16 value 1.0, represented as 0.0 modulo 1.0.
ONE == 0

\* qsin_uq016_wrapped_neighbour is qsin_uq016 taking the neighbour of the last
\* entry from the table, where the key has wrapped to entry 0.
qsin_uq016_wrapped_neighbour(phi) ==
    LET key0 == UI8(phi \div POW2(COEF_BIT))
        coef == UI16((phi % POW2(COEF_BIT)) * POW2(UQ016_BIT - COEF_BIT))
    IN  IF coef = 0
        THEN qsin_lut[key0 + 1]
        ELSE LET key1 == UI8(key0 + 1)
                 val1 == qmul_uq016(qsin_lut[key1 + 1], coef)
                 val0 == qmul_uq016(qsin_lut[key0 + 1], UI16(ONE - coef))
             IN  UI16(val0 + val1)

qsin_uq016(phi) ==
    LET key0 == UI8(phi \div POW2(COEF_BIT))
        coef == UI16((phi % POW2(COEF_BIT)) * POW2(UQ016_BIT - COEF_BIT))
    IN  IF coef = 0
        THEN qsin_lut[key0 + 1]
        ELSE LET key1 == UI8(key0 + 1)
                 val1 == IF key1 = 0 THEN coef
                         ELSE qmul_uq016(qsin_lut[key1 + 1], coef)
                 val0 == qmul_uq016(qsin_lut[key0 + 1], UI16(ONE - coef))
             IN  UI16(val0 + val1)

PI2 == 16384
PI == 32768
PI32 == 49152
ONE_P == 32767
ONE_N == 32768

\* msin_fold_unmirrored is msin_fold without the mirroring of the second
\* quarter, a fault the symmetries of msin_sq015 detect.
\* msin_sq015, the folding of the phase into the first quadrant: phi is
\* reduced by pi when it is in the negative half-period, then mirrored about
\* pi/2 when it is in the second quarter.
msin_fold_unmirrored(phi) ==
    IF phi >= PI THEN UI16(phi - PI) ELSE phi

msin_fold(phi) ==
    LET phi1 == IF phi >= PI THEN UI16(phi - PI) ELSE phi
    IN  IF phi1 > PI2 THEN UI16(PI - phi1) ELSE phi1

\* msin_sq015, the attenuation of the unsigned sine.
msin_att(usin, att) ==
    IF att > 0 THEN qmul_uq016(usin, UI16(ONE - att)) ELSE usin

\* msin_round_unsaturated is msin_round raising the code 0x7FFF as well.
msin_round_unsaturated(usin) ==
    LET ssin == sq015_from_uq016(usin)
    IN  IF usin % 2 = 1 THEN SI16(ssin + 1) ELSE ssin

\* msin_sq015, the conversion to SQ0.15 with rounding on the discarded bit.
msin_round(usin) ==
    LET ssin == sq015_from_uq016(usin)
    IN  IF usin % 2 = 1 /\ ssin < 32767 THEN SI16(ssin + 1) ELSE ssin

\* msin_sign_rectified is msin_sign that never negates.
msin_sign_rectified(phi, ssin) == ssin

\* msin_sq015, the sign of the half-period phi is in.
msin_sign(phi, ssin) ==
    IF phi >= PI THEN SI16(-ssin) ELSE SI16(ssin)

\* msin_sq015_no_peak is msin_sq015 without the special case of pi/2, a
\* fault the value at the peak detects.
msin_sq015_no_peak(phi, att) ==
    IF phi = PI32
    THEN IF att = 0 THEN SI16(ONE_N) ELSE SI16(-sq015_from_uq016(UI16(ONE - att)))
    ELSE msin_sign(phi, msin_round(msin_att(qsin_uq016(msin_fold(phi)), att)))

msin_sq015(phi, att) ==
    IF phi = PI2
    THEN IF att = 0 THEN SI16(ONE_P) ELSE SI16(sq015_from_uq016(UI16(ONE - att)))
    ELSE IF phi = PI32
    THEN IF att = 0 THEN SI16(ONE_N) ELSE SI16(-sq015_from_uq016(UI16(ONE - att)))
    ELSE msin_sign(phi, msin_round(msin_att(qsin_uq016(msin_fold(phi)), att)))

\* Table of squares used by sqrt_ui16, 128 entries; entry key is sqr_lut[key + 1].
sqr_lut == <<
        0,     1,     4,     9,    16,    25,    36,    49,
       64,    81,   100,   121,   144,   169,   196,   225,
      256,   289,   324,   361,   400,   441,   484,   529,
      576,   625,   676,   729,   784,   841,   900,   961,
     1024,  1089,  1156,  1225,  1296,  1369,  1444,  1521,
     1600,  1681,  1764,  1849,  1936,  2025,  2116,  2209,
     2304,  2401,  2500,  2601,  2704,  2809,  2916,  3025,
     3136,  3249,  3364,  3481,  3600,  3721,  3844,  3969,
     4096,  4225,  4356,  4489,  4624,  4761,  4900,  5041,
     5184,  5329,  5476,  5625,  5776,  5929,  6084,  6241,
     6400,  6561,  6724,  6889,  7056,  7225,  7396,  7569,
     7744,  7921,  8100,  8281,  8464,  8649,  8836,  9025,
     9216,  9409,  9604,  9801, 10000, 10201, 10404, 10609,
    10816, 11025, 11236, 11449, 11664, 11881, 12100, 12321,
    12544, 12769, 12996, 13225, 13456, 13689, 13924, 14161,
    14400, 14641, 14884, 15129, 15376, 15625, 15876, 16129 >>

\* The for loop of sqrt_ui16: the first key whose square exceeds x, or 128.
RECURSIVE sqrt_key(_, _)
sqrt_key(x, key) ==
    IF key < Len(sqr_lut) /\ ~(sqr_lut[key + 1] > x)
    THEN sqrt_key(x, key + 1)
    ELSE key

\* sqrt_ui16; its assertion x < 0x4000 is sqrt_ok.
sqrt_ok(x) == x < 16384

\* sqrt_ui16_key is sqrt_ui16 returning the key the loop stopped at.
sqrt_ui16_key(x) == UI16(sqrt_key(x, 0))

sqrt_ui16(x) == UI16(sqrt_key(x, 0) - 1)

-----------------------------------------------------------------------------
(* The generator descriptor, struct gen_descr_t.  The fields are the ones   *)
(* the generator's procedures read and write.  Each is held in the type of *)
(* the values those procedures store in it: uq016_t for freq, phi, att     *)
(* (the setters' parameters) and phi0, phi1, phi2 (copies of phi), sq015_t *)
(* for val0, val1, val2 (results of msin_sq015), bool_t for en and pp, and *)
(* ui16_t for sampl, steps, msize, asize, sidx, ridx, aidx (cnt1, cnt2,    *)
(* the result of sqrt_ui16 and the locals of gen_output are ui16_t).       *)

Fields ==
    {"freq", "phi", "att", "en", "pp", "phi0", "phi1", "phi2", "val0", "val1", "val2",
     "sampl", "steps", "msize", "asize", "sidx", "ridx", "aidx"}

\* A descriptor as its storage is before gen_init: every field holds
\* whatever the memory held, here the same 16-bit pattern j in each word.
Uninit(j) ==
    [f \in Fields |->
        IF f \in {"val0", "val1", "val2"} THEN SI16(j)
        ELSE IF f \in {"en", "pp"} THEN UI8(j)
        ELSE UI16(j)]

\* Every procedure on a descriptor yields [g, ok]: the descriptor as the
\* procedure leaves it, and ok = FALSE when one of its assertions failed
\* (g is then the descriptor at the moment of the failure).
Done(g) == [g |-> g, ok |-> TRUE]
Failed(g) == [g |-> g, ok |-> FALSE]

\* pp_activate_uncentred is pp_activate leaving phi1 at the first change of
\* the amplitude.
pp_activate_uncentred(g, cnt2) ==
    LET msize == g.sampl \div g.steps
        asize == g.sampl % g.steps
        ridx  == UI16(g.sampl - (g.steps \div 2) * msize)
    IN  [g EXCEPT !.pp = 1,
                  !.msize = msize,
                  !.asize = asize,
                  !.sidx = 0,
                  !.ridx = ridx,
                  !.aidx = UI16(ridx - asize)]

\* pp_activate_overshoot is pp_activate moving phi1 by the whole of cnt2.
pp_activate_overshoot(g, cnt2) ==
    LET msize == g.sampl \div g.steps
        asize == g.sampl % g.steps
        ridx  == UI16(g.sampl - (g.steps \div 2) * msize)
    IN  [g EXCEPT !.pp = 1,
                  !.phi1 = UI16(g.phi1 + cnt2 * g.freq),
                  !.msize = msize,
                  !.asize = asize,
                  !.sidx = 0,
                  !.ridx = ridx,
                  !.aidx = UI16(ridx - asize)]

\* pp_activate_ridx_left is pp_activate with every main step taken off ridx.
pp_activate_ridx_left(g, cnt2) ==
    LET msize == g.sampl \div g.steps
        asize == g.sampl % g.steps
        ridx  == UI16(g.sampl - g.steps * msize)
    IN  [g EXCEPT !.pp = 1,
                  !.phi1 = UI16(g.phi1 + (cnt2 \div 2) * g.freq),
                  !.msize = msize,
                  !.asize = asize,
                  !.sidx = 0,
                  !.ridx = ridx,
                  !.aidx = UI16(ridx - asize)]

\* The block of gen_pp_lookahead guarded by steps >= 2: the interval starts.
pp_activate(g, cnt2) ==
    LET msize == g.sampl \div g.steps
        asize == g.sampl % g.steps
        ridx  == UI16(g.sampl - (g.steps \div 2) * msize)
    IN  [g EXCEPT !.pp = 1,
                  !.phi1 = UI16(g.phi1 + (cnt2 \div 2) * g.freq),
                  !.msize = msize,
                  !.asize = asize,
                  !.sidx = 0,
                  !.ridx = ridx,
                  !.aidx = UI16(ridx - asize)]

\* pp_steps_from_1 is pp_steps starting an interval of one step as well.
pp_steps_from_1(g, cnt2) ==
    IF g.steps >= 1 THEN Done(pp_activate(g, cnt2)) ELSE Done(g)

\* gen_pp_lookahead once steps is assigned.
pp_steps(g, cnt2) ==
    IF g.steps >= 2 THEN Done(pp_activate(g, cnt2)) ELSE Done(g)

\* gen_pp_lookahead once sampl is assigned: sqrt_ui16 asserts on it.
pp_sampl(g, cnt2) ==
    IF ~sqrt_ok(g.sampl)
    THEN Failed(g)
    ELSE pp_steps([g EXCEPT !.steps = sqrt_ui16(g.sampl)], cnt2)

\* gen_pp_lookahead after both loops have left with break.
pp_interval(g, cnt1, cnt2) ==
    pp_sampl([g EXCEPT !.sampl = UI16(cnt1 + cnt2 \div 2)], cnt2)

\* Where a while loop of gen_pp_lookahead stands after a pass: at "loop"
\* it goes round again, at "break" it was left with break, at "return" the
\* procedure returned from inside it.  cnt is the loop's counter.
Loop(g, cnt) == [g |-> g, cnt |-> cnt, at |-> "loop"]
Broke(g, cnt) == [g |-> g, cnt |-> cnt, at |-> "break"]
Returned(g, cnt) == [g |-> g, cnt |-> cnt, at |-> "return"]

\* Second while loop of gen_pp_lookahead: advance phi2 until the amplitude
\* leaves val1.  One pass: g holds the incremented phi2, cnt2 is already
\* incremented.
scan2_val(g, cnt2) ==
    IF g.val2 # g.val1 THEN Broke(g, cnt2) ELSE Loop(g, cnt2)

scan2_bound(g, cnt2) ==
    IF g.phi2 - g.phi1 >= 16384 \/ cnt2 >= 16384
    THEN Returned(g, cnt2)
    ELSE scan2_val([g EXCEPT !.val2 = msin_sq015(g.phi2, g.att)], cnt2)

scan2_pass(g, cnt2) ==
    scan2_bound([g EXCEPT !.phi2 = UI16(g.phi2 + g.freq)], UI16(cnt2 + 1))

\* Up to n passes of the loop, stopping at the first that leaves it; the
\* passes are taken half by half.
RECURSIVE scan2_passes(_, _)
scan2_more(s, n) == IF s.at = "loop" THEN scan2_passes(s, n) ELSE s

scan2_passes(s, n) ==
    IF n = 1
    THEN scan2_pass(s.g, s.cnt)
    ELSE scan2_more(scan2_passes(s, n \div 2), n - n \div 2)

scan2_left(s, cnt1) ==
    IF s.at = "break" THEN pp_interval(s.g, cnt1, s.cnt) ELSE Done(s.g)

\* The loop is left within 16384 passes, the bound on cnt2.
scan2(g, cnt1, cnt2) == scan2_left(scan2_passes(Loop(g, cnt2), 16384), cnt1)

\* gen_pp_lookahead between the loops: the difference of the two levels.
pp_dval(g, cnt1) ==
    LET dval == SI16(g.val1 - g.val0)
    IN  IF dval < -1 \/ dval > 1
        THEN Done(g)
        ELSE scan2([g EXCEPT !.phi2 = g.phi1], cnt1, 0)

\* First while loop of gen_pp_lookahead: advance phi1 until the amplitude
\* leaves val0.  The bound compares the int difference of the two fields.
scan1_val(g, cnt1) ==
    IF g.val1 # g.val0 THEN Broke(g, cnt1) ELSE Loop(g, cnt1)

scan1_bound(g, cnt1) ==
    IF g.phi1 - g.phi0 >= 16384 \/ cnt1 >= 16384
    THEN Returned(g, cnt1)
    ELSE scan1_val([g EXCEPT !.val1 = msin_sq015(g.phi1, g.att)], cnt1)

scan1_pass(g, cnt1) ==
    scan1_bound([g EXCEPT !.phi1 = UI16(g.phi1 + g.freq)], UI16(cnt1 + 1))

RECURSIVE scan1_passes(_, _)
scan1_more(s, n) == IF s.at = "loop" THEN scan1_passes(s, n) ELSE s

scan1_passes(s, n) ==
    IF n = 1
    THEN scan1_pass(s.g, s.cnt)
    ELSE scan1_more(scan1_passes(s, n \div 2), n - n \div 2)

scan1_left(s) ==
    IF s.at = "break" THEN pp_dval(s.g, s.cnt) ELSE Done(s.g)

\* The loop is left within 16384 passes, the bound on cnt1.
scan1(g, cnt1) == scan1_left(scan1_passes(Loop(g, cnt1), 16384))

\* gen_pp_lookahead_always is gen_pp_lookahead without the test of en.
gen_pp_lookahead_always(g) ==
    IF ~(g.freq > 0 /\ g.freq <= 16384) \/ g.pp # 0
    THEN Failed(g)
    ELSE scan1([g EXCEPT !.phi1 = g.phi0], 0)

gen_pp_lookahead(g) ==
    IF ~(g.freq > 0 /\ g.freq <= 16384) \/ g.pp # 0
    THEN Failed(g)
    ELSE IF g.en = 0
    THEN Done(g)
    ELSE scan1([g EXCEPT !.phi1 = g.phi0], 0)

\* The two while loops of gen_pp_lookahead on their own, for counting their
\* passes: the first from phi0, the second from the phi1 the first has
\* left, entered when the first breaks on a level one code away from val0.
look_first(g) == scan1_passes(Loop([g EXCEPT !.phi1 = g.phi0], 0), 16384)

look_enters(s) == s.at = "break" /\ SI16(s.g.val1 - s.g.val0) \in -1..1

look_second(s) ==
    IF look_enters(s)
    THEN scan2_passes(Loop([s.g EXCEPT !.phi2 = s.g.phi1], 0), 16384)
    ELSE [g |-> s.g, cnt |-> 0, at |-> "skip"]

\* look_evals_passes counts a call of msin_sq015 in the pass that returns.
look_evals_passes(s) == s.cnt

\* The calls of msin_sq015 a loop has made: one in every pass except the
\* one that returns on the bound.
look_evals(s) ==
    IF s.at = "return" THEN s.cnt - 1 ELSE s.cnt

\* gen_pp_restart once phi0, val0 and pp are assigned.
pp_restarted(g) ==
    IF g.freq > 0 THEN gen_pp_lookahead(g) ELSE Done(g)

\* gen_pp_restart_stale_val0 is gen_pp_restart without the assignment of val0.
gen_pp_restart_stale_val0(g) ==
    pp_restarted([g EXCEPT !.phi0 = g.phi, !.pp = 0])

gen_pp_restart(g) ==
    pp_restarted([g EXCEPT !.phi0 = g.phi,
                           !.val0 = msin_sq015(g.phi, g.att),
                           !.pp = 0])

\* gen_init_keep_en is gen_init without the assignment of en.
gen_init_keep_en(g) ==
    gen_pp_restart([g EXCEPT !.freq = 0, !.phi = 0, !.att = 0])

gen_init(g) ==
    gen_pp_restart([g EXCEPT !.freq = 0, !.phi = 0, !.att = 0, !.en = 0])

\* gen_set_freq_unchecked is gen_set_freq without its assertion on freq.
gen_set_freq_unchecked(g, freq) ==
    gen_pp_restart([g EXCEPT !.freq = freq])

\* gen_set_freq_rewind is gen_set_freq that also puts the phase back to 0.
gen_set_freq_rewind(g, freq) ==
    IF ~(freq <= 16384)
    THEN Failed(g)
    ELSE gen_pp_restart([g EXCEPT !.freq = freq, !.phi = 0])

gen_set_freq(g, freq) ==
    IF ~(freq <= 16384)
    THEN Failed(g)
    ELSE gen_pp_restart([g EXCEPT !.freq = freq])

gen_set_phi(g, phi) == gen_pp_restart([g EXCEPT !.phi = phi])

\* gen_set_att_in_place is gen_set_att without the restart.
gen_set_att_in_place(g, att) == Done([g EXCEPT !.att = att])

gen_set_att(g, att) == gen_pp_restart([g EXCEPT !.att = att])

gen_set_pp(g, en) == gen_pp_restart([g EXCEPT !.en = en])

\* gen_output_odd_val1 is gen_output with the two values of the additional
\* step exchanged.
gen_output_odd_val1(g) ==
    IF g.pp = 0
    THEN msin_sq015(g.phi, g.att)
    ELSE IF g.sidx >= g.aidx /\ g.sidx < g.ridx
    THEN IF (g.sidx - g.aidx) % 2 = 1 THEN g.val1 ELSE g.val0
    ELSE LET midx  == IF g.sidx >= g.ridx THEN UI16(g.sidx - g.asize) ELSE g.sidx
             istep == midx \div g.msize
             iidx  == midx % g.msize
             pidx  == iidx % g.steps
         IN  IF pidx >= istep THEN g.val0 ELSE g.val1

\* gen_output_one_pattern is gen_output with a pattern as long as the main
\* step, so that it does not repeat inside it.
gen_output_one_pattern(g) ==
    IF g.pp = 0
    THEN msin_sq015(g.phi, g.att)
    ELSE IF g.sidx >= g.aidx /\ g.sidx < g.ridx
    THEN IF (g.sidx - g.aidx) % 2 = 1 THEN g.val0 ELSE g.val1
    ELSE LET midx  == IF g.sidx >= g.ridx THEN UI16(g.sidx - g.asize) ELSE g.sidx
             istep == midx \div g.msize
             iidx  == midx % g.msize
         IN  IF iidx >= istep THEN g.val0 ELSE g.val1

gen_output(g) ==
    IF g.pp = 0
    THEN msin_sq015(g.phi, g.att)
    ELSE IF g.sidx >= g.aidx /\ g.sidx < g.ridx
    THEN IF (g.sidx - g.aidx) % 2 = 1 THEN g.val0 ELSE g.val1
    ELSE LET midx  == IF g.sidx >= g.ridx THEN UI16(g.sidx - g.asize) ELSE g.sidx
             istep == midx \div g.msize
             iidx  == midx % g.msize
             pidx  == iidx % g.steps
         IN  IF pidx >= istep THEN g.val0 ELSE g.val1

\* step_lookahead_realigned is step_lookahead taking phi0 and val0 afresh
\* from the current phase.
step_lookahead_realigned(g) ==
    IF g.pp = 0 THEN gen_pp_restart(g) ELSE Done(g)

\* gen_step after the rollover test: lookahead unless an interval is active.
step_lookahead(g) ==
    IF g.pp = 0 THEN gen_pp_lookahead(g) ELSE Done(g)

\* gen_step after phi and sidx are advanced: the interval ends when sidx
\* reaches sampl.
step_rolled(g) ==
    IF g.pp # 0 /\ g.sidx = g.sampl
    THEN [g EXCEPT !.phi0 = g.phi1, !.val0 = g.val1, !.pp = 0]
    ELSE g

step_rollover(g) == step_lookahead(step_rolled(g))

\* step_advanced_held_in_interval is step_advanced leaving phi alone while an
\* interval is active.
step_advanced_held_in_interval(g) ==
    [g EXCEPT !.phi = IF g.pp = 0 THEN UI16(g.phi + g.freq) ELSE g.phi,
              !.sidx = UI16(g.sidx + 1)]

\* gen_step's two increments.
step_advanced(g) ==
    [g EXCEPT !.phi = UI16(g.phi + g.freq), !.sidx = UI16(g.sidx + 1)]

\* gen_step_always is gen_step without the early return on freq = 0.
gen_step_always(g) ==
    step_rollover([g EXCEPT !.phi = UI16(g.phi + g.freq), !.sidx = UI16(g.sidx + 1)])

\* gen_step_held is gen_step holding the phase while an interval is active.
gen_step_held(g) ==
    IF g.freq = 0
    THEN Done(g)
    ELSE step_rollover([g EXCEPT !.phi = IF g.pp = 0 THEN UI16(g.phi + g.freq) ELSE g.phi,
                                 !.sidx = UI16(g.sidx + 1)])

\* gen_step_saturating is gen_step with a phase that saturates at the top
\* of the container instead of wrapping.
gen_step_saturating(g) ==
    IF g.freq = 0
    THEN Done(g)
    ELSE step_rollover([g EXCEPT !.phi = IF g.phi + g.freq > 65535 THEN 65535 ELSE g.phi + g.freq,
                                 !.sidx = UI16(g.sidx + 1)])

gen_step(g) ==
    IF g.freq = 0
    THEN Done(g)
    ELSE step_rollover(step_advanced(g))

-----------------------------------------------------------------------------
(* The application programming interface used on one descriptor, in any    *)
(* order and with arguments drawn from small sets.                         *)

\* Bit patterns an uninitialised descriptor may hold.
Junk == {0, 43690}

\* Arguments passed to the setters.
FreqArgs == {0, 1024, 16384, 16385}
PhiArgs == {0, 16384}
AttArgs == {0, 65532}
PpArgs == {0, 1}

\* The number of configuration calls (gen_init, gen_set_*) and of gen_step
\* calls explored on gen in one behaviour.
MaxCalls == 4
MaxSteps == 8

\* The dual application is not running; no pure function is being called.
NoRun == [freq |-> 0, phi |-> 0, att |-> 0, cnt |-> 0, row |-> <<0, 0, 0>>, head |-> <<>>]
NoEval == [f |-> "none", a |-> 0, b |-> 0, r |-> 0, done |-> TRUE]

Init ==
    /\ \E j \in Junk : gen = gen_init(Uninit(j)).g
    /\ gen1 = gen_init(Uninit(0)).g
    /\ gen2 = gen_init(Uninit(0)).g
    /\ last = [op |-> "gen_init", arg |-> 0]
    /\ aborted = FALSE
    /\ ncall = 0
    /\ nstep = 0
    /\ run = NoRun
    /\ eval = NoEval

\* A call of a procedure on gen that returned r (or died in an assertion).
Called(op, arg, r) ==
    /\ ~aborted
    /\ gen' = r.g
    /\ aborted' = ~r.ok
    /\ last' = [op |-> op, arg |-> arg]
    /\ UNCHANGED <<gen1, gen2, run, eval>>

\* A configuration call: gen_init or one of the setters.
Configured(op, arg, r) ==
    /\ ncall < MaxCalls
    /\ ncall' = ncall + 1
    /\ Called(op, arg, r)
    /\ UNCHANGED nstep

GenInit == Configured("gen_init", 0, gen_init(gen))

GenSetFreq == \E freq \in FreqArgs : Configured("gen_set_freq", freq, gen_set_freq(gen, freq))

GenSetPhi == \E phi \in PhiArgs : Configured("gen_set_phi", phi, gen_set_phi(gen, phi))

GenSetAtt == \E att \in AttArgs : Configured("gen_set_att", att, gen_set_att(gen, att))

GenSetPp == \E en \in PpArgs : Configured("gen_set_pp", en, gen_set_pp(gen, en))

GenStep ==
    /\ nstep < MaxSteps
    /\ nstep' = nstep + 1
    /\ Called("gen_step", 0, gen_step(gen))
    /\ UNCHANGED ncall

Next ==
    \/ GenInit
    \/ GenSetFreq
    \/ GenSetPhi
    \/ GenSetAtt
    \/ GenSetPp
    \/ GenStep

Spec == Init /\ [][Next]_vars

-----------------------------------------------------------------------------
(* The dual application (run() with gen1 and gen2): both generators get    *)
(* the same frequency, phase and attenuation, postprocessing is enabled on *)
(* gen2 only, and each pass of the loop prints one row and steps both.     *)

\* The configurations <<freq, phi, att>> the application is run with.
DualCfgs ==
    {<<4, 0, 0>>, <<16384, 0, 0>>, <<12288, 0, 0>>, <<1024, 0, 0>>,
     <<64, 16256, 0>>, <<55, 16300, 0>>, <<16, 16368, 0>>,
     <<1024, 0, 65532>>, <<256, 0, 65528>>}

\* Passes of the loop explored beyond one period of 2^16 / freq samples.
ExtraRun == 8

RunLen(freq) == (POW2(UQ016_BIT) \div freq) + ExtraRun

\* The calls run() makes to set a generator up; a call is made only if the
\* process has survived the calls before it.
cfg_freq(r, freq) == IF r.ok THEN gen_set_freq(r.g, freq) ELSE r
cfg_phi(r, phi) == IF r.ok THEN gen_set_phi(r.g, phi) ELSE r
cfg_att(r, att) == IF r.ok THEN gen_set_att(r.g, att) ELSE r
cfg_pp(r, en) == IF r.ok THEN gen_set_pp(r.g, en) ELSE r

Configure(g, freq, phi, att, en) ==
    cfg_pp(cfg_att(cfg_phi(cfg_freq(gen_init(g), freq), phi), att), en)

\* The state of the dual application when its loop is entered.
Configured2(c1, c2, freq, phi, att) ==
    /\ gen1 = c1.g
    /\ gen2 = c2.g
    /\ aborted = ~(c1.ok /\ c2.ok)
    /\ run = [NoRun EXCEPT !.freq = freq, !.phi = phi, !.att = att]

\* The state after one pass of the loop that printed row: cnt counts the
\* rows printed, row is the last one and head the first ExtraRun of them.
Stepped2(s1, s2, row) ==
    /\ gen1' = s1.g
    /\ gen2' = s2.g
    /\ aborted' = ~(s1.ok /\ s2.ok)
    /\ run' = [run EXCEPT !.cnt = run.cnt + 1,
                          !.row = row,
                          !.head = IF run.cnt < ExtraRun
                                   THEN Append(run.head, row)
                                   ELSE run.head]

InitDual ==
    /\ \E cfg \in DualCfgs, j \in Junk :
          Configured2(Configure(Uninit(j), cfg[1], cfg[2], cfg[3], 0),
                      Configure(Uninit(j), cfg[1], cfg[2], cfg[3], 1),
                      cfg[1], cfg[2], cfg[3])
    /\ gen = gen_init(Uninit(0)).g
    /\ last = [op |-> "gen_init", arg |-> 0]
    /\ ncall = 0
    /\ nstep = 0
    /\ eval = NoEval

\* One pass of the do-while loop: print phi and both outputs, step both.
DualStep ==
    /\ ~aborted
    /\ run.cnt < RunLen(run.freq)
    /\ Stepped2(gen_step(gen1), gen_step(gen2),
                <<gen1.phi, gen_output(gen1), gen_output(gen2)>>)
    /\ UNCHANGED <<gen, last, ncall, nstep, eval>>

SpecDual == InitDual /\ [][DualStep]_vars

-----------------------------------------------------------------------------
(* msin_sq015 called on its own, on a grid of phases and attenuations and  *)
(* on every attenuation at the two phases it treats specially.             *)

\* Distance between the phases of the grid.
PhiStride == 97

MsinAtts == {0, 1, 2, 255, 32768, 65528, 65532, 65534, 65535}

MsinPhis ==
    {p \in 0..65535 : p % PhiStride = 0 \/ p % 16384 \in {0, 1, 2, 63, 64, 65, 16382, 16383}}

MsinArgs ==
    (MsinPhis \X MsinAtts) \cup ({PI2, PI32} \X (0..65535))

InitMsin ==
    /\ \E x \in MsinArgs :
          eval = [f |-> "msin_sq015", a |-> x[1], b |-> x[2], r |-> 0, done |-> FALSE]
    /\ gen = gen_init(Uninit(0)).g
    /\ gen1 = gen_init(Uninit(0)).g
    /\ gen2 = gen_init(Uninit(0)).g
    /\ last = [op |-> "gen_init", arg |-> 0]
    /\ aborted = FALSE
    /\ ncall = 0
    /\ nstep = 0
    /\ run = NoRun

EvalMsin ==
    /\ eval.f = "msin_sq015"
    /\ ~eval.done
    /\ eval' = [eval EXCEPT !.r = msin_sq015(eval.a, eval.b), !.done = TRUE]
    /\ UNCHANGED <<gen, gen1, gen2, last, aborted, ncall, nstep, run>>

SpecMsin == InitMsin /\ [][EvalMsin]_vars

-----------------------------------------------------------------------------
(* sqrt_ui16 called on its own, on every argument its assertion admits and *)
(* on some it does not.                                                    *)

\* No generator is in use while a function is called on its own.
NoGen ==
    /\ gen = gen_init(Uninit(0)).g
    /\ gen1 = gen_init(Uninit(0)).g
    /\ gen2 = gen_init(Uninit(0)).g
    /\ last = [op |-> "gen_init", arg |-> 0]
    /\ ncall = 0
    /\ nstep = 0
    /\ run = NoRun

SqrtArgs == (0..16383) \cup {16384, 16385, 32768, 65535}

InitSqrt ==
    /\ \E x \in SqrtArgs :
          eval = [f |-> "sqrt_ui16", a |-> x, b |-> 0, r |-> 0, done |-> FALSE]
    /\ aborted = FALSE
    /\ NoGen

EvalSqrt ==
    /\ eval.f = "sqrt_ui16"
    /\ ~eval.done
    /\ aborted' = ~sqrt_ok(eval.a)
    /\ eval' = [eval EXCEPT !.r = IF sqrt_ok(eval.a) THEN sqrt_ui16(eval.a) ELSE eval.r,
                            !.done = TRUE]
    /\ UNCHANGED <<gen, gen1, gen2, last, ncall, nstep, run>>

SpecSqrt == InitSqrt /\ [][EvalSqrt]_vars

-----------------------------------------------------------------------------
(* qmul_uq016 called on its own, on a grid of pairs of UQ0.16 codes.       *)

QStride == 1021

QmulArgs ==
    {x \in 0..65535 :
        x % QStride = 0 \/ x \in {1, 2, 255, 256, 257, 32767, 32768, 65534, 65535}}

InitQmul ==
    /\ \E x \in QmulArgs, y \in QmulArgs :
          eval = [f |-> "qmul_uq016", a |-> x, b |-> y, r |-> 0, done |-> FALSE]
    /\ aborted = FALSE
    /\ NoGen

EvalQmul ==
    /\ eval.f = "qmul_uq016"
    /\ ~eval.done
    /\ eval' = [eval EXCEPT !.r = qmul_uq016(eval.a, eval.b), !.done = TRUE]
    /\ UNCHANGED <<gen, gen1, gen2, last, aborted, ncall, nstep, run>>

SpecQmul == InitQmul /\ [][EvalQmul]_vars

-----------------------------------------------------------------------------
(* The conversions of fixtypes.c called in chains: a value of one of the   *)
(* five types is converted, the result is converted again, and so on.  A   *)
(* failed assertion ends the chain.                                        *)

MaxConv == 2
ConvStride == 509

\* Containers a caller can pass for each type: every code of the 16-bit
\* types; for the types held in a 32-bit container a sample of the codes,
\* the ends of the range, and containers that break the type's rule.
ConvArgs(t) ==
    CASE t = "sq015" -> -32768..32767
      [] t = "uq016" -> 0..65535
      [] t = "sq021" ->
            {k * ConvStride : k \in -(2097152 \div ConvStride)..(2097151 \div ConvStride)}
                \cup {-2097152, -2097153, -64, -1, 1, 63, 2097151, 2097152,
                      4194303, 4194304, -4194304, -4194305}
      [] OTHER ->
            {k * ConvStride : k \in 0..(4194303 \div ConvStride)}
                \cup {1, 63, 2097151, 2097152, 4194303, 4194304, 4194305, 8388608}

ConvTypes == {"sq015", "uq016", "sq021", "uq121", "uq022"}

InitConv ==
    /\ \E t \in ConvTypes : \E x \in ConvArgs(t) :
          eval = [f |-> "none", p |-> "none", a |-> x, b |-> x, r |-> x,
                  t |-> t, n |-> 0, done |-> FALSE]
    /\ aborted = FALSE
    /\ NoGen

\* One call: the value held is the argument; the assertions decide between
\* a result of the destination type and an abort.
Convert(name, src, dst, ok, val) ==
    /\ ~aborted
    /\ eval.n < MaxConv
    /\ eval.t = src
    /\ aborted' = ~ok
    /\ eval' = [eval EXCEPT !.p = eval.f, !.f = name, !.b = eval.r,
                            !.r = IF ok THEN val ELSE eval.r,
                            !.t = IF ok THEN dst ELSE src,
                            !.n = eval.n + 1, !.done = TRUE]
    /\ UNCHANGED <<gen, gen1, gen2, last, ncall, nstep, run>>

Sq021FromSq015 ==
    Convert("sq021_from_sq015", "sq015", "sq021",
            sq021_from_sq015_ok(eval.r), sq021_from_sq015(eval.r))

Uq121FromUq016 ==
    Convert("uq121_from_uq016", "uq016", "uq121",
            uq121_from_uq016_ok(eval.r), uq121_from_uq016(eval.r))

Uq022FromUq016 ==
    Convert("uq022_from_uq016", "uq016", "uq022",
            uq022_from_uq016_ok(eval.r), uq022_from_uq016(eval.r))

Sq015FromSq021 ==
    Convert("sq015_from_sq021", "sq021", "sq015",
            sq015_from_sq021_ok(eval.r), sq015_from_sq021(eval.r))

Uq016FromUq022 ==
    Convert("uq016_from_uq022", "uq022", "uq016",
            uq016_from_uq022_ok(eval.r), uq016_from_uq022(eval.r))

Uq016FromSq015 ==
    Convert("uq016_from_sq015", "sq015", "uq016",
            uq016_from_sq015_ok(eval.r), uq016_from_sq015(eval.r))

Sq015FromUq016 ==
    Convert("sq015_from_uq016", "uq016", "sq015",
            sq015_from_uq016_ok(eval.r), sq015_from_uq016(eval.r))

Uq022FromSq021 ==
    Convert("uq022_from_sq021", "sq021", "uq022",
            uq022_from_sq021_ok(eval.r), uq022_from_sq021(eval.r))

Sq021FromUq022 ==
    Convert("sq021_from_uq022", "uq022", "sq021",
            sq021_from_uq022_ok(eval.r), sq021_from_uq022(eval.r))

NextConv ==
    \/ Sq021FromSq015
    \/ Uq121FromUq016
    \/ Uq022FromUq016
    \/ Sq015FromSq021
    \/ Uq016FromUq022
    \/ Uq016FromSq015
    \/ Sq015FromUq016
    \/ Uq022FromSq021
    \/ Sq021FromUq022

SpecConv == InitConv /\ [][NextConv]_vars

-----------------------------------------------------------------------------
(* One period of run() at the attenuation it uses, 65528, on every         *)
(* frequency whose period has 4096 samples or more; the outputs of both    *)
(* generators are summed as they are printed.                              *)

MeanFreqs == 1..16

\* The sums so far: a of gen1's outputs, b of gen2's, r the rows printed.
Summed2(c1, c2, freq) ==
    /\ gen1 = c1.g
    /\ gen2 = c2.g
    /\ aborted = ~(c1.ok /\ c2.ok)
    /\ run = [NoRun EXCEPT !.freq = freq, !.att = 65528]
    /\ eval = [f |-> "run", a |-> 0, b |-> 0, r |-> 0, done |-> FALSE]

InitMean ==
    /\ \E freq \in MeanFreqs, j \in Junk :
          Summed2(Configure(Uninit(j), freq, 0, 65528, 0),
                  Configure(Uninit(j), freq, 0, 65528, 1), freq)
    /\ gen = gen_init(Uninit(0)).g
    /\ last = [op |-> "gen_init", arg |-> 0]
    /\ ncall = 0
    /\ nstep = 0

\* One pass of the loop with cycles = 1: the row is printed, both
\* generators step, and the loop ends when gen1's phase has wrapped.
StepMean2(s1, s2, out1, out2) ==
    /\ gen1' = s1.g
    /\ gen2' = s2.g
    /\ aborted' = ~(s1.ok /\ s2.ok)
    /\ eval' = [eval EXCEPT !.a = eval.a + out1,
                            !.b = eval.b + out2,
                            !.r = eval.r + 1,
                            !.done = s1.g.phi < gen1.phi]

MeanStep ==
    /\ ~aborted
    /\ ~eval.done
    /\ StepMean2(gen_step(gen1), gen_step(gen2), gen_output(gen1), gen_output(gen2))
    /\ UNCHANGED <<gen, last, ncall, nstep, run>>

SpecMean == InitMean /\ [][MeanStep]_vars

-----------------------------------------------------------------------------
(* qsin_uq016 called on its own, on every phase of the first quadrant.     *)

QsinArgs == 0..16383

InitQsin ==
    /\ \E x \in QsinArgs :
          eval = [f |-> "qsin_uq016", a |-> x, b |-> 0, r |-> 0, done |-> FALSE]
    /\ aborted = FALSE
    /\ NoGen

EvalQsin ==
    /\ eval.f = "qsin_uq016"
    /\ ~eval.done
    /\ eval' = [eval EXCEPT !.r = qsin_uq016(eval.a), !.done = TRUE]
    /\ UNCHANGED <<gen, gen1, gen2, last, aborted, ncall, nstep, run>>

SpecQsin == InitQsin /\ [][EvalQsin]_vars

-----------------------------------------------------------------------------
(* The two descriptors of run() with their calls in any order: the calls   *)
(* of gen_output inside one fprintf are unsequenced, and two callers, each *)
(* with its own descriptor, may take their steps in any order.  eval.a and *)
(* eval.b count the steps of gen1 and gen2; eval.r keeps the junk both     *)
(* descriptors held before gen_init.                                       *)

InterCfgs == {<<1024, 0, 65532>>, <<16384, 0, 0>>, <<64, 16256, 0>>}
InterSteps == 7

InitInter ==
    /\ \E cfg \in InterCfgs, j \in Junk :
          /\ Configured2(Configure(Uninit(j), cfg[1], cfg[2], cfg[3], 0),
                         Configure(Uninit(j), cfg[1], cfg[2], cfg[3], 1),
                         cfg[1], cfg[2], cfg[3])
          /\ eval = [f |-> "interleave", a |-> 0, b |-> 0, r |-> j, done |-> FALSE]
    /\ gen = gen_init(Uninit(0)).g
    /\ last = [op |-> "gen_set_pp", arg |-> 1]
    /\ ncall = 0
    /\ nstep = 0

InterOutput1 ==
    /\ ~aborted
    /\ eval.f = "interleave"
    /\ last' = [op |-> "gen_output(&gen1)", arg |-> gen_output(gen1)]
    /\ UNCHANGED <<gen, gen1, gen2, aborted, ncall, nstep, run, eval>>

InterOutput2 ==
    /\ ~aborted
    /\ eval.f = "interleave"
    /\ last' = [op |-> "gen_output(&gen2)", arg |-> gen_output(gen2)]
    /\ UNCHANGED <<gen, gen1, gen2, aborted, ncall, nstep, run, eval>>

InterStepped1(s) ==
    /\ gen1' = s.g
    /\ aborted' = ~s.ok
    /\ last' = [op |-> "gen_step(&gen1)", arg |-> 0]
    /\ eval' = [eval EXCEPT !.a = eval.a + 1]

InterStepped2(s) ==
    /\ gen2' = s.g
    /\ aborted' = ~s.ok
    /\ last' = [op |-> "gen_step(&gen2)", arg |-> 0]
    /\ eval' = [eval EXCEPT !.b = eval.b + 1]

InterStep1 ==
    /\ ~aborted
    /\ eval.f = "interleave"
    /\ eval.a < InterSteps
    /\ InterStepped1(gen_step(gen1))
    /\ UNCHANGED <<gen, gen2, ncall, nstep, run>>

InterStep2 ==
    /\ ~aborted
    /\ eval.f = "interleave"
    /\ eval.b < InterSteps
    /\ InterStepped2(gen_step(gen2))
    /\ UNCHANGED <<gen, gen1, ncall, nstep, run>>

NextInter ==
    \/ InterOutput1
    \/ InterOutput2
    \/ InterStep1
    \/ InterStep2

SpecInter == InitInter /\ [][NextInter]_vars

-----------------------------------------------------------------------------
(* One lookahead on its own: a descriptor configured with postprocessing   *)
(* off, then gen_set_pp(1), whose restart enters gen_pp_lookahead from the *)
(* current phase.  eval counts the calls of msin_sq015 in the two loops.   *)

LookFreqs == {1, 2, 1024, 16384}
LookPhis == {0, 8846, 16384, 32768, 60000}
LookAtts == {0, 65532, 65535}

\* The descriptor as gen_pp_restart hands it to gen_pp_lookahead.
look_entry(g) ==
    [g EXCEPT !.en = 1, !.phi0 = g.phi, !.val0 = msin_sq015(g.phi, g.att), !.pp = 0]

InitLook ==
    /\ \E freq \in LookFreqs, phi \in LookPhis, att \in LookAtts :
          /\ gen = Configure(Uninit(0), freq, phi, att, 0).g
          /\ run = [NoRun EXCEPT !.freq = freq, !.phi = phi, !.att = att]
    /\ gen1 = gen_init(Uninit(0)).g
    /\ gen2 = gen_init(Uninit(0)).g
    /\ aborted = FALSE
    /\ last = [op |-> "gen_init", arg |-> 0]
    /\ ncall = 0
    /\ nstep = 0
    /\ eval = [f |-> "gen_pp_lookahead", a |-> 0, b |-> 0,
               r |-> <<"none", "none">>, done |-> FALSE]

LookCalled(r) ==
    /\ gen' = r.g
    /\ aborted' = ~r.ok
    /\ last' = [op |-> "gen_set_pp", arg |-> 1]
    /\ ncall' = ncall + 1

Looked2(s1, s2) ==
    eval' = [eval EXCEPT !.a = look_evals(s1), !.b = look_evals(s2),
                         !.r = <<s1.at, s2.at>>, !.done = TRUE]

Looked1(s1) == Looked2(s1, look_second(s1))

LookSetPp ==
    /\ eval.f = "gen_pp_lookahead"
    /\ ~eval.done
    /\ LookCalled(gen_set_pp(gen, 1))
    /\ Looked1(look_first(look_entry(gen)))
    /\ UNCHANGED <<gen1, gen2, nstep, run>>

SpecLook == InitLook /\ [][LookSetPp]_vars

-----------------------------------------------------------------------------
(* The interface used on one descriptor at the lowest frequency and a high *)
(* attenuation, where the amplitude keeps a level for thousands of steps.  *)

LongFreqs == {1}
LongPhis == {8846}
LongAtts == {65532}

\* Budgets of configuration calls and of steps.
LongCalls == 4
LongSteps == 1

LongConfigured(op, arg, r) ==
    /\ ncall < LongCalls
    /\ ncall' = ncall + 1
    /\ Called(op, arg, r)
    /\ UNCHANGED nstep

LongInit == LongConfigured("gen_init", 0, gen_init(gen))

LongSetFreq ==
    \E freq \in LongFreqs : LongConfigured("gen_set_freq", freq, gen_set_freq(gen, freq))

LongSetPhi ==
    \E phi \in LongPhis : LongConfigured("gen_set_phi", phi, gen_set_phi(gen, phi))

LongSetAtt ==
    \E att \in LongAtts : LongConfigured("gen_set_att", att, gen_set_att(gen, att))

LongSetPp ==
    \E en \in PpArgs : LongConfigured("gen_set_pp", en, gen_set_pp(gen, en))

LongStep ==
    /\ nstep < LongSteps
    /\ nstep' = nstep + 1
    /\ Called("gen_step", 0, gen_step(gen))
    /\ UNCHANGED ncall

NextLong ==
    \/ LongInit
    \/ LongSetFreq
    \/ LongSetPhi
    \/ LongSetAtt
    \/ LongSetPp
    \/ LongStep

InitLong ==
    /\ gen = gen_init(Uninit(0)).g
    /\ gen1 = gen_init(Uninit(0)).g
    /\ gen2 = gen_init(Uninit(0)).g
    /\ last = [op |-> "gen_init", arg |-> 0]
    /\ aborted = FALSE
    /\ ncall = 0
    /\ nstep = 0
    /\ run = NoRun
    /\ eval = NoEval

SpecLong == InitLong /\ [][NextLong]_vars

-----------------------------------------------------------------------------
(* Properties of the generator interface, checked under Spec.              *)

Setters == {"gen_init", "gen_set_freq", "gen_set_phi", "gen_set_att", "gen_set_pp"}

\* The descriptor holds the geometry of an interval that lookahead started.
HasInterval(g) ==
    /\ g.steps \in 2..127
    /\ g.sampl = g.msize * g.steps + g.asize
    /\ g.asize < g.steps
    /\ g.ridx = g.sampl - (g.steps \div 2) * g.msize
    /\ g.aidx = g.ridx - g.asize

\* C1: whenever postprocessing is disabled (en = 0), after any sequence of
\* gen_init, setters and steps, the interval flag pp is 0 and gen_output
\* returns msin_sq015(phi, att) for the current phi and att.
C1_DisabledIsPlainSine ==
    gen.en = 0 => gen.pp = 0 /\ gen_output(gen) = msin_sq015(gen.phi, gen.att)

\* Postprocessing has just been disabled on a generator that had run an
\* interval (its geometry is still in the descriptor) and has moved on.
C1_Witness ==
    /\ last = [op |-> "gen_set_pp", arg |-> 0]
    /\ ~aborted
    /\ gen.en = 0
    /\ gen.freq > 0
    /\ gen.att > 0
    /\ nstep > 0
    /\ HasInterval(gen)
    /\ gen.sidx > 0
    /\ gen_output(gen) = msin_sq015(gen.phi, gen.att)

\* C2: gen_step with freq > 0 sets phi to (phi + freq) mod 2^16 and leaves
\* freq, att and en unchanged, whether no interval is active, an interval
\* is active, or the step is the one on which an interval rolls over.
C2_StepAdvancesPhase ==
    [][last'.op = "gen_step" /\ gen.freq > 0
         => /\ gen'.phi = (gen.phi + gen.freq) % 65536
            /\ gen'.freq = gen.freq
            /\ gen'.att = gen.att
            /\ gen'.en = gen.en]_vars

\* A step has just rolled an interval over: the next interval starts at the
\* current phase, which is not the phase the stream was configured with.
C2_Witness ==
    /\ last.op = "gen_step"
    /\ ~aborted
    /\ gen.freq = 1024
    /\ gen.pp = 1
    /\ gen.sidx = 0
    /\ gen.phi0 = gen.phi
    /\ gen.phi = (6 * 1024) % 65536
    /\ nstep = 6

\* C4: when gen_init or a setter returns, phi0 = phi and val0 =
\* msin_sq015(phi, att), the descriptor is the one a restart from this phase
\* produces (no interval of an earlier configuration survives; if lookahead
\* started one, freq > 0, en # 0 and sidx = 0), and gen_output returns
\* msin_sq015(phi, att).
C4_SetterRestarts ==
    last.op \in Setters /\ ~aborted
        => /\ gen.phi0 = gen.phi
           /\ gen.val0 = msin_sq015(gen.phi, gen.att)
           /\ gen_pp_restart(gen) = Done(gen)
           /\ gen.pp # 0 => gen.sidx = 0 /\ gen.freq > 0 /\ gen.en # 0
           /\ gen_output(gen) = msin_sq015(gen.phi, gen.att)

\* The attenuation has just been changed in the middle of an active
\* interval, and lookahead has started a new one from the current phase.
C4_Witness ==
    /\ last.op = "gen_set_att"
    /\ ~aborted
    /\ nstep > 0
    /\ gen.phi # 0
    /\ gen.phi % 16384 # 0
    /\ gen.pp = 1
    /\ gen.sidx = 0
    /\ gen.phi0 = gen.phi
    /\ gen_output(gen) = msin_sq015(gen.phi, gen.att)

\* C11: when gen_init returns, freq = phi = att = 0, postprocessing is
\* disabled (en = 0), no interval is active (pp = 0) and gen_output returns
\* 0, whatever the descriptor held before.
C11_InitResets ==
    last.op = "gen_init"
        => /\ ~aborted
           /\ gen.freq = 0 /\ gen.phi = 0 /\ gen.att = 0
           /\ gen.en = 0
           /\ gen.pp = 0
           /\ gen.phi0 = 0 /\ gen.val0 = 0
           /\ gen_output(gen) = 0

\* gen_init has just been called on a generator that was running an
\* interval (its geometry and its sample index are still in the descriptor).
C11_Witness ==
    /\ last.op = "gen_init"
    /\ ncall > 0
    /\ nstep > 0
    /\ HasInterval(gen)
    /\ gen.sidx > 0 /\ gen.sidx < gen.sampl
    /\ gen.val1 # gen.val0
    /\ gen_output(gen) = 0

\* The descriptor gen_pp_lookahead is entered with when gen_step is called
\* on gen with freq > 0 and no interval is left active.
LookaheadEntry == step_rolled(step_advanced(gen))

AtPhase(e) == e.phi0 = e.phi /\ e.val0 = msin_sq015(e.phi, e.att)

\* C17: every gen_pp_lookahead that scans (en = 1) is entered with
\* phi0 = phi and val0 = msin(phi, att): the one gen_step calls, after a
\* rollover or with no interval active, and the one a restart calls, which
\* leaves phi0 and val0 as it found them.
C17_LookaheadStartsAtPhase ==
    [][/\ (nstep' = nstep + 1 /\ gen.freq > 0 /\ gen.en = 1 /\ LookaheadEntry.pp = 0
              => AtPhase(LookaheadEntry))
       /\ (ncall' = ncall + 1 /\ gen'.freq > 0 /\ gen'.en = 1 /\ ~aborted'
              => AtPhase(gen'))]_vars

\* C8: gen_step with freq = 0 changes no field of the descriptor, so the
\* output stays the same over any number of steps; it is 0x7FFF for
\* phi = 0x4000 and att = 0.
C8_StepIsNoOpAtZeroFreq ==
    /\ [][last'.op = "gen_step" /\ gen.freq = 0
            => gen' = gen /\ gen_output(gen') = gen_output(gen) /\ ~aborted']_vars
    /\ [](gen.freq = 0 /\ gen.phi = 16384 /\ gen.att = 0 => gen_output(gen) = 32767)

\* The generator stands at the positive peak with freq = 0 and has been
\* stepped more than once.
C8_Witness ==
    /\ last.op = "gen_step"
    /\ ~aborted
    /\ nstep >= 2
    /\ gen.freq = 0
    /\ gen.phi = 16384
    /\ gen.att = 0
    /\ gen_output(gen) = 32767

\* C9: gen_set_freq with freq > 0x4000 fails its assertion before any field
\* of the descriptor is modified, and freq <= 0x4000 holds in every state.
C9_FreqIsBounded ==
    /\ [](gen.freq <= 16384)
    /\ [][last'.op = "gen_set_freq" /\ last'.arg > 16384 => aborted' /\ gen' = gen]_vars

\* gen_set_freq(0x4001) has just been refused on a running generator.
C9_Witness ==
    /\ last = [op |-> "gen_set_freq", arg |-> 16385]
    /\ aborted
    /\ nstep > 0
    /\ gen.freq = 1024
    /\ gen.phi = 1024

\* C10: each setter assigns its argument to its own field and leaves the
\* other three of freq, phi, att, en unchanged; the step that follows
\* gen_set_freq advances phi by the new freq.
C10_SettersFrame ==
    [][/\ last'.op = "gen_set_freq" /\ ~aborted'
          => gen'.freq = last'.arg /\ gen'.phi = gen.phi /\ gen'.att = gen.att /\ gen'.en = gen.en
       /\ last'.op = "gen_set_phi" /\ ~aborted'
          => gen'.phi = last'.arg /\ gen'.freq = gen.freq /\ gen'.att = gen.att /\ gen'.en = gen.en
       /\ last'.op = "gen_set_att" /\ ~aborted'
          => gen'.att = last'.arg /\ gen'.freq = gen.freq /\ gen'.phi = gen.phi /\ gen'.en = gen.en
       /\ last'.op = "gen_set_pp" /\ ~aborted'
          => gen'.en = last'.arg /\ gen'.freq = gen.freq /\ gen'.phi = gen.phi /\ gen'.att = gen.att
       /\ last.op = "gen_set_freq" /\ ~aborted /\ last'.op = "gen_step"
          => gen'.phi = (gen.phi + last.arg) % 65536]_vars

\* The frequency has just been changed from 0x400 to 0x4000 in the middle
\* of the stream: the phase reached with the old frequency is kept.
C10_Witness ==
    /\ last = [op |-> "gen_set_freq", arg |-> 16384]
    /\ ~aborted
    /\ nstep > 0
    /\ gen.freq = 16384
    /\ gen.phi % 16384 = 1024

-----------------------------------------------------------------------------
(* Properties of the emitted streams, checked under SpecDual.              *)

\* C3, as stated: for att = 0, every freq and every starting phase, the
\* generator with postprocessing enabled prints the same sample as the one
\* with postprocessing disabled, in every row.
C3_Original ==
    run.att = 0 /\ run.cnt > 0 => run.row[3] = run.row[2]

\* C3, amended: for att = 0 the two generators print the same samples, and
\* no interval is ever active on the second, when freq >= 55 (any starting
\* phase) or when the starting phase is 0 (any freq).
C3_NeutralAtZeroAtt ==
    run.att = 0 /\ (run.freq >= 55 \/ run.phi = 0)
        => /\ gen2.pp = 0
           /\ gen_output(gen2) = gen_output(gen1)
           /\ run.cnt > 0 => run.row[3] = run.row[2]

\* Started just below the peak with freq = 64, lookahead finds an interval
\* of two samples, too short to start (steps = 1), and both generators have
\* printed the peak sample.
C3_Witness ==
    /\ run.freq = 64 /\ run.phi = 16256 /\ run.att = 0
    /\ run.cnt = 3
    /\ gen2.en = 1
    /\ gen2.pp = 0
    /\ gen2.sampl = 2
    /\ gen2.steps = 1
    /\ run.row = <<16384, 32767, 32767>>

\* Frequencies that divide 2^16, and the number of steps in one period.
Divides(freq) == 65536 % freq = 0
Period(freq) == 65536 \div freq
PeriodUp(freq) == (65536 + freq - 1) \div freq

\* C5, as stated: for every freq, after N = 2^16/freq steps phi equals its
\* starting value (N taken as the quotient rounded down or up).
C5_Original ==
    run.freq > 0 /\ run.cnt = PeriodUp(run.freq)
        => \/ gen1.phi = run.phi
           \/ /\ ~Divides(run.freq)
              /\ (gen1.phi - run.freq) % 65536 = run.phi

\* C5, amended: with postprocessing disabled and a freq that divides 2^16,
\* after N = 2^16/freq steps phi equals its starting value and the rows
\* printed from then on repeat the rows printed from the start; with freq = 4
\* from phase 0 the row printed after 4096 steps is the peak 0x7FFF; with
\* freq = 0x4000 the period is 4.
C5_PeriodicWhenFreqDivides ==
    /\ run.freq > 0 /\ Divides(run.freq) /\ run.cnt = Period(run.freq)
          => gen1.phi = run.phi /\ gen_output(gen1) = run.head[1][2]
    /\ run.freq > 0 /\ Divides(run.freq) /\ run.cnt > Period(run.freq)
          => /\ run.row[1] = run.head[run.cnt - Period(run.freq)][1]
             /\ run.row[2] = run.head[run.cnt - Period(run.freq)][2]
    /\ run.freq = 4 /\ run.phi = 0 /\ run.att = 0 /\ run.cnt = 4097
          => run.row[1] = 16384 /\ run.row[2] = 32767
    /\ run.freq = 16384 /\ run.cnt > 4 => run.row = run.head[run.cnt - 4]

\* With freq = 4 from phase 0 the phase is 0 again after 16384 steps, and
\* the first row of the second period has been printed.
C5_Witness ==
    /\ run.freq = 4 /\ run.phi = 0 /\ run.att = 0
    /\ run.cnt = 16385
    /\ gen1.phi = 4
    /\ run.row[1] = 0
    /\ run.row[2] = run.head[1][2]

\* gen2 is inside the additional step of an active interval.
InAdditional(g) == g.pp = 1 /\ g.sidx >= g.aidx /\ g.sidx < g.ridx

\* C19, as stated: inside the additional step the output printed is val1
\* when sidx - aidx is odd and val0 when it is even.
C19_Original ==
    [][InAdditional(gen2)
          => run'.row[3] = IF (gen2.sidx - gen2.aidx) % 2 = 1
                           THEN gen2.val1 ELSE gen2.val0]_vars

\* C19, amended: inside the additional step the output printed is val0
\* when sidx - aidx is odd and val1 when it is even; the two values differ.
C19_AdditionalStepParity ==
    [][InAdditional(gen2)
          => /\ run'.row[3] = IF (gen2.sidx - gen2.aidx) % 2 = 1
                              THEN gen2.val0 ELSE gen2.val1
             /\ gen2.val0 # gen2.val1]_vars

\* gen2 is at the second sample of an additional step, an odd offset, and
\* the first sample, just printed, was val1.
C19_Witness ==
    /\ InAdditional(gen2)
    /\ gen2.sidx - gen2.aidx = 1
    /\ run.row[3] = gen2.val1
    /\ gen_output(gen2) = gen2.val0
    /\ gen2.val0 # gen2.val1

\* Sample s of the interval of g lies in main step i.
InMainStep(g, s, i) ==
    /\ ~(s >= g.aidx /\ s < g.ridx)
    /\ (IF s >= g.ridx THEN s - g.asize ELSE s) \div g.msize = i

\* The samples of main step i of the interval of g, and those of them
\* gen_output answers with val1.
MainStep(g, i) == {s \in 0..(g.sampl - 1) : InMainStep(g, s, i)}

Val1Samples(g, i) ==
    {s \in MainStep(g, i) : gen_output([g EXCEPT !.sidx = s]) = g.val1}

Min(a, b) == IF a < b THEN a ELSE b

\* C20, as stated: in main step i of an active interval exactly i samples
\* are val1, for every i in 0..steps-1.
C20_Original ==
    gen2.pp = 1 /\ gen2.sidx = 0
        => \A i \in 0..(gen2.steps - 1) : Cardinality(Val1Samples(gen2, i)) = i

\* C20, amended: main step i has msize samples, of which
\* i + min(i, msize - steps) are val1, since the pattern of steps samples
\* starts again inside a main step longer than it; this is i when
\* msize = steps, it is 0 for the first main step, and it does not fall
\* from one main step to the next.
C20_DutyCycleRamp ==
    gen2.pp = 1 /\ gen2.sidx = 0
        => /\ gen2.steps >= 2 /\ gen2.msize >= gen2.steps
           /\ gen2.val0 # gen2.val1
           /\ \A i \in 0..(gen2.steps - 1) :
                 /\ Cardinality(MainStep(gen2, i)) = gen2.msize
                 /\ Cardinality(Val1Samples(gen2, i))
                       = i + Min(i, gen2.msize - gen2.steps)
           /\ MainStep(gen2, gen2.steps) = {}

\* An interval of 14 samples starts: 3 main steps of 4 samples and an
\* additional step of 2; the pattern of 3 starts again in each main step.
C20_Witness ==
    /\ gen2.pp = 1 /\ gen2.sidx = 0
    /\ gen2.sampl = 14 /\ gen2.steps = 3 /\ gen2.msize = 4 /\ gen2.asize = 2
    /\ Cardinality(Val1Samples(gen2, 1)) = 2
    /\ Cardinality(Val1Samples(gen2, 2)) = 3

\* The descriptor gen_pp_lookahead is entered with when gen_step is called
\* on gen2.
LookaheadEntry2 == step_rolled(step_advanced(gen2))

\* C21: while an interval is active, phi = phi0 + sidx*freq and
\* phi1 = phi0 + sampl*freq modulo 2^16, with sidx < sampl; a gen_step
\* before the sampl-th leaves the interval as it is, and the sampl-th
\* arrives at phi = phi1, assigns phi0 := phi1, val0 := val1, pp := 0 and
\* returns what gen_pp_lookahead makes of that descriptor.
C21_IntervalLifetime ==
    [][gen2.pp = 1
          => /\ gen2.phi = UI16(gen2.phi0 + gen2.sidx * gen2.freq)
             /\ gen2.phi1 = UI16(gen2.phi0 + gen2.sampl * gen2.freq)
             /\ gen2.sidx < gen2.sampl
             /\ gen2.sidx + 1 < gen2.sampl
                   => /\ gen2'.pp = 1
                      /\ gen2'.sidx = gen2.sidx + 1
                      /\ gen2'.phi0 = gen2.phi0 /\ gen2'.phi1 = gen2.phi1
                      /\ gen2'.sampl = gen2.sampl
             /\ gen2.sidx + 1 = gen2.sampl
                   => /\ LookaheadEntry2.phi = gen2.phi1
                      /\ LookaheadEntry2.phi0 = gen2.phi1
                      /\ LookaheadEntry2.val0 = gen2.val1
                      /\ LookaheadEntry2.pp = 0
                      /\ gen2' = gen_pp_lookahead(LookaheadEntry2).g
                      /\ gen2'.phi0 = gen2.phi1 /\ gen2'.val0 = gen2.val1]_vars

\* The first interval of 6 samples has ended on the sixth step, and the
\* lookahead of that step has started the next one, of 10 samples.
C21_Witness ==
    /\ run.freq = 1024 /\ run.att = 65532 /\ run.cnt = 6
    /\ gen2.pp = 1 /\ gen2.sidx = 0 /\ gen2.sampl = 10
    /\ gen2.phi = 6144 /\ gen2.phi0 = 6144

-----------------------------------------------------------------------------
(* Properties of msin_sq015, checked under SpecMsin.                       *)

\* C6, as stated: msin(0x4000, att) is 0x7FFF for att = 0 and
\* (2^16 - att) >> 1 otherwise, and msin(0xC000, att) = -msin(0x4000, att).
C6_Original ==
    eval.f = "msin_sq015" /\ eval.done
        => /\ eval.a = PI2
                => eval.r = IF eval.b = 0 THEN 32767 ELSE (65536 - eval.b) \div 2
           /\ eval.a = PI32
                => eval.r = -(IF eval.b = 0 THEN 32767 ELSE (65536 - eval.b) \div 2)

\* C6, amended: msin(0x4000, att) is 0x7FFF for att = 0 and
\* (2^16 - att) >> 1 otherwise; msin(0xC000, att) is -(2^16 - att) >> 1 for
\* att > 0 and -0x8000, one code below -0x7FFF, for att = 0.
C6_PeakValues ==
    eval.f = "msin_sq015" /\ eval.done
        => /\ eval.a = PI2
                => eval.r = IF eval.b = 0 THEN 32767 ELSE (65536 - eval.b) \div 2
           /\ eval.a = PI32
                => eval.r = IF eval.b = 0 THEN -32768 ELSE -((65536 - eval.b) \div 2)

\* msin_sq015(0xC000, 0) has returned -0x8000.
C6_Witness ==
    eval = [f |-> "msin_sq015", a |-> PI32, b |-> 0, r |-> -32768, done |-> TRUE]

\* C7: for every att, msin(0x8000 - p, att) = msin(p, att) for p in
\* (0, 0x4000), msin(0x8000 + p, att) = -msin(p, att) for p in (0, 0x8000)
\* other than 0x4000, and msin(0, att) = 0.
C7_Symmetries ==
    eval.f = "msin_sq015" /\ eval.done
        => /\ eval.a > 0 /\ eval.a < PI2
                => msin_sq015(PI - eval.a, eval.b) = eval.r
           /\ eval.a > 0 /\ eval.a < PI /\ eval.a # PI2
                => msin_sq015((PI + eval.a) % 65536, eval.b) = -eval.r
           /\ eval.a = 0 => eval.r = 0

\* msin_sq015 has returned a value that the rounding step raised, in the
\* second quarter of the period and with attenuation.
C7_Witness ==
    /\ eval.f = "msin_sq015" /\ eval.done
    /\ eval.a > PI2 /\ eval.a < PI
    /\ eval.b = 255
    /\ eval.r > 0
    /\ msin_att(qsin_uq016(msin_fold(eval.a)), eval.b) % 2 = 1
    /\ msin_sq015((PI + eval.a) % 65536, eval.b) = -eval.r

-----------------------------------------------------------------------------
(* Properties of sqrt_ui16, checked under SpecSqrt.                        *)

\* C12: for every x in 0..0x3FFF sqrt_ui16 returns the largest k with
\* k*k <= x; it is monotonic, sqrt_ui16(k*k) = k for k in 0..127, and it maps
\* 0, 3, 4, 16128, 16129 to 0, 1, 2, 126, 127.
C12_IsqrtIsFloorRoot ==
    eval.f = "sqrt_ui16" /\ eval.done /\ eval.a < 16384
        => /\ ~aborted
           /\ eval.r * eval.r <= eval.a
           /\ (eval.r + 1) * (eval.r + 1) > eval.a
           /\ eval.a > 0 => sqrt_ui16(eval.a - 1) <= eval.r
           /\ \A k \in 0..127 : eval.a = k * k => eval.r = k
           /\ eval.a = 0 => eval.r = 0
           /\ eval.a = 3 => eval.r = 1
           /\ eval.a = 4 => eval.r = 2
           /\ eval.a = 16128 => eval.r = 126
           /\ eval.a = 16129 => eval.r = 127

\* sqrt_ui16 has returned for the largest admitted argument, for which its
\* loop runs off the end of the table.
C12_Witness ==
    /\ eval = [f |-> "sqrt_ui16", a |-> 16383, b |-> 0, r |-> 127, done |-> TRUE]
    /\ sqrt_key(eval.a, 0) = Len(sqr_lut)
    /\ ~aborted

-----------------------------------------------------------------------------
(* Properties of qmul_uq016, checked under SpecQmul.                       *)

\* The integer part of a*b / 2^16, from the four byte products of a and b:
\* a*b = ah*bh*2^16 + (ah*bl + al*bh)*2^8 + al*bl.
FloorProd(a, b) ==
    LET ah == a \div 256
        al == a % 256
        bh == b \div 256
        bl == b % 256
    IN  ah * bh + ((ah * bl + al * bh) * 256 + al * bl) \div 65536

\* C13: for all UQ0.16 codes a and b, qmul(a, b) is floor(a*b / 2^16), a
\* value the 32-bit intermediate holds without wrapping (the quotient fits
\* 16 bits); qmul is commutative, qmul(a, 0) = 0 and qmul(a, 0xFFFF) <= a.
C13_QmulIsFloorProduct ==
    eval.f = "qmul_uq016" /\ eval.done
        => /\ FloorProd(eval.a, eval.b) < POW2(UQ016_BIT)
           /\ eval.r = FloorProd(eval.a, eval.b)
           /\ eval.r = qmul_uq016(eval.b, eval.a)
           /\ eval.b = 0 => eval.r = 0
           /\ eval.b = 65535 => eval.r <= eval.a
           /\ ~aborted

\* qmul_uq016 has returned for the two largest codes, whose product is the
\* largest the 32-bit intermediate has to hold.
C13_Witness ==
    eval = [f |-> "qmul_uq016", a |-> 65535, b |-> 65535, r |-> 65534, done |-> TRUE]

-----------------------------------------------------------------------------
(* Properties of the conversions, checked under SpecConv.                  *)

\* The rule of each type's container: a signed value's sign fills the
\* unused high bits, an unsigned value's unused high bits are zero.
Contained(t, x) ==
    CASE t = "sq015" -> x \in -32768..32767
      [] t = "uq016" -> x \in 0..65535
      [] t = "sq021" -> x \in -2097152..2097151
      [] OTHER -> x \in 0..4194303

\* C14: widening then narrowing is the identity: sq015_from_sq021 of
\* sq021_from_sq015(x) is x for every SQ0.15 code x, negative ones included,
\* and uq016_from_uq022 of uq022_from_uq016(x) is x for every UQ0.16 code x;
\* neither call fails an assertion.
C14_WidenNarrowIsIdentity ==
    /\ eval.f = "sq021_from_sq015" /\ eval.n = 1 => ~aborted
    /\ eval.f = "uq022_from_uq016" /\ eval.n = 1 => ~aborted
    /\ eval.p = "sq021_from_sq015" /\ eval.f = "sq015_from_sq021" /\ eval.n = 2
          => ~aborted /\ eval.r = eval.a /\ eval.b = 64 * eval.a
    /\ eval.p = "uq022_from_uq016" /\ eval.f = "uq016_from_uq022" /\ eval.n = 2
          => ~aborted /\ eval.r = eval.a /\ eval.b = 64 * eval.a

\* The most negative SQ0.15 code has been widened and narrowed back.
C14_Witness ==
    /\ eval.p = "sq021_from_sq015" /\ eval.f = "sq015_from_sq021"
    /\ eval.a = -32768 /\ eval.b = -2097152 /\ eval.r = -32768
    /\ eval.n = 2 /\ ~aborted

\* C15: uq016_from_sq015 and uq022_from_sq021 fail an assertion on every
\* negative argument and return nothing; on every non-negative argument
\* they return twice the argument, which fits the destination's effective
\* bits; the result of every conversion that returns obeys the rule of the
\* destination type's container.
C15_SignedToUnsigned ==
    /\ eval.f \in {"uq016_from_sq015", "uq022_from_sq021"} /\ eval.b < 0
          => aborted /\ eval.r = eval.b
    /\ eval.f = "uq016_from_sq015" /\ eval.b >= 0
          => ~aborted /\ eval.r = 2 * eval.b /\ eval.r < POW2(UQ016_BIT)
    /\ eval.f = "uq022_from_sq021" /\ eval.b >= 0 /\ Contained("sq021", eval.b)
          => ~aborted /\ eval.r = 2 * eval.b /\ eval.r < POW2(UQ022_BIT)
    /\ eval.done /\ ~aborted => Contained(eval.t, eval.r)

\* uq022_from_sq021 has rejected the most negative SQ0.21 code.
C15_Witness ==
    /\ eval.f = "uq022_from_sq021" /\ eval.b = -2097152 /\ eval.n = 1
    /\ aborted

-----------------------------------------------------------------------------
(* Properties of the means over one period, checked under SpecMean.        *)

Abs(x) == IF x < 0 THEN -x ELSE x

-----------------------------------------------------------------------------
(* Properties of long intervals, checked under SpecLong.                   *)

\* C18: the generator never violates the precondition of sqrt_ui16: no
\* assertion fails, and the sampl = cnt1 + cnt2 / 2 of every interval that
\* gen_pp_lookahead starts is below 0x4000.
C18_SqrtPreconditionHolds ==
    /\ ~aborted
    /\ gen.pp = 1 => sqrt_ok(gen.sampl)

-----------------------------------------------------------------------------
(* Properties of active intervals, checked under Spec.                     *)

\* The amplitude k steps of freq after phi0.
AmpAt(g, k) == msin_sq015(UI16(g.phi0 + k * g.freq), g.att)

\* val1 is the first amplitude after phi0 that differs from val0, found
\* within the interval.
FirstChangeIsVal1(g) ==
    \E k \in 1..g.sampl :
        /\ AmpAt(g, k) = g.val1
        /\ \A j \in 1..(k - 1) : AmpAt(g, j) = g.val0

\* C22: in every state with an active interval val0 = msin(phi0, att),
\* val1 = msin(phi1, att) at the centred phi1, val1 is the first amplitude
\* to differ from val0 and differs from it by exactly one code; a lookahead
\* entered at the current phase whose next sample already differs by more
\* than one code leaves pp = 0.
C22_IntervalValues ==
    /\ gen.pp = 1
          => /\ gen.val0 = msin_sq015(gen.phi0, gen.att)
             /\ gen.val1 = msin_sq015(gen.phi1, gen.att)
             /\ Abs(gen.val1 - gen.val0) = 1
             /\ FirstChangeIsVal1(gen)
    /\ (/\ ~aborted /\ gen.en = 1 /\ gen.freq \in 1..16384
        /\ gen.phi0 = gen.phi /\ gen.val0 = msin_sq015(gen.phi, gen.att)
        /\ Abs(AmpAt(gen, 1) - gen.val0) > 1)
          => gen.pp = 0

\* The sixth step has ended the first interval and started a second one,
\* which falls from code 1 to code 2 of the attenuated sine.
C22_Witness ==
    /\ gen.pp = 1 /\ gen.sidx = 0 /\ nstep = 6
    /\ gen.freq = 1024 /\ gen.att = 65532
    /\ gen.phi0 = 6144 /\ gen.val0 = 1 /\ gen.val1 = 2

-----------------------------------------------------------------------------
(* Properties of the interval geometry, checked under SpecMean.            *)

\* gen_output's midx and istep for the current sample.
output_midx(g) == IF g.sidx >= g.ridx THEN UI16(g.sidx - g.asize) ELSE g.sidx
output_istep(g) == output_midx(g) \div g.msize

\* C23: in every state with an active interval steps is the integer square
\* root of sampl and at least 2, msize = sampl div steps >= steps,
\* asize = sampl mod steps < steps, ridx = sampl - (steps div 2) * msize,
\* aidx = ridx - asize, 0 < aidx <= ridx < sampl and sidx < sampl; the
\* divisors of gen_output are positive and its istep is at most steps - 1.
C23_IntervalGeometry ==
    gen2.pp = 1
        => /\ gen2.steps = sqrt_ui16(gen2.sampl)
           /\ gen2.steps * gen2.steps <= gen2.sampl
           /\ (gen2.steps + 1) * (gen2.steps + 1) > gen2.sampl
           /\ gen2.steps >= 2
           /\ gen2.msize = gen2.sampl \div gen2.steps
           /\ gen2.msize >= gen2.steps
           /\ gen2.asize = gen2.sampl % gen2.steps
           /\ gen2.asize < gen2.steps
           /\ gen2.ridx = gen2.sampl - (gen2.steps \div 2) * gen2.msize
           /\ gen2.aidx = gen2.ridx - gen2.asize
           /\ 0 < gen2.aidx
           /\ gen2.aidx <= gen2.ridx
           /\ gen2.ridx < gen2.sampl
           /\ gen2.sidx < gen2.sampl
           /\ gen2.msize > 0
           /\ output_midx(gen2) < gen2.steps * gen2.msize
           /\ output_istep(gen2) <= gen2.steps - 1

\* At frequency 9 the last sample of an interval of 811 samples in 28 main
\* steps, the additional step of 27 samples behind it: istep is steps - 1.
C23_Witness ==
    /\ gen2.pp = 1 /\ run.freq = 9
    /\ gen2.sampl = 811 /\ gen2.steps = 28 /\ gen2.msize = 28 /\ gen2.asize = 27
    /\ gen2.ridx = 419 /\ gen2.aidx = 392 /\ gen2.sidx = 810
    /\ output_midx(gen2) = 783 /\ output_istep(gen2) = 27

-----------------------------------------------------------------------------
(* The output against the sine at the current phase, checked under Spec.   *)

\* C24: after any sequence of operations gen_output differs from
\* msin(phi, att) by at most one code: outside an interval it is
\* msin(phi, att), inside an interval both are one of val0 and val1.
C24_OutputWithinOneCode ==
    ~aborted
        => /\ Abs(gen_output(gen) - msin_sq015(gen.phi, gen.att)) <= 1
           /\ gen.pp = 0 => gen_output(gen) = msin_sq015(gen.phi, gen.att)
           /\ gen.pp = 1
                 => /\ gen_output(gen) \in {gen.val0, gen.val1}
                    /\ msin_sq015(gen.phi, gen.att) \in {gen.val0, gen.val1}

\* Three steps into an interval falling from code 2 to code 1 the output is
\* already val1 while the sine at the current phase is still val0.
C24_Witness ==
    /\ ~aborted /\ gen.pp = 1 /\ gen.freq = 1024 /\ gen.att = 65532
    /\ gen.phi0 = 16384 /\ gen.phi = 19456 /\ gen.sidx = 3
    /\ gen.val0 = 2 /\ gen.val1 = 1
    /\ gen_output(gen) = 1
    /\ msin_sq015(gen.phi, gen.att) = 2

-----------------------------------------------------------------------------
(* A lookahead that did not start an interval, checked under SpecDual.     *)

\* C25: when an operation has returned with pp = 0 while en = 1 and
\* freq > 0, the next gen_step leaves pp = 0, phi0 and val0 as they were,
\* and the output is msin(phi, att); as the loop calls nothing but
\* gen_step, no interval starts again.
C25_FailedLookaheadStays ==
    [][(~aborted /\ gen2.pp = 0 /\ gen2.en = 1 /\ gen2.freq > 0)
          => /\ gen2'.pp = 0
             /\ gen2'.phi0 = gen2.phi0
             /\ gen2'.val0 = gen2.val0
             /\ gen2'.en = 1 /\ gen2'.freq = gen2.freq
             /\ gen2'.phi = UI16(gen2.phi + gen2.freq)
             /\ gen_output(gen2') = msin_sq015(gen2'.phi, gen2'.att)]_vars

\* At frequency 16, 2041 steps after the start, the lookahead is still
\* entered with the phi0 of the interval that ended just after the peak and
\* pp is 0, while a lookahead from the current phase would start an
\* interval.
C25_Witness ==
    /\ ~aborted /\ run.freq = 16 /\ run.phi = 16368 /\ run.cnt = 2041
    /\ gen2.pp = 0 /\ gen2.en = 1
    /\ gen2.phi0 = 16496 /\ gen2.phi # gen2.phi0
    /\ gen_pp_restart(gen2).g.pp = 1

-----------------------------------------------------------------------------
(* The cost of one lookahead, checked under SpecLook.                      *)

\* C26, as stated: every gen_pp_lookahead terminates and calls msin_sq015 at
\* most 16384 times, both loops together.
C26_Original ==
    eval.f = "gen_pp_lookahead" /\ eval.done
        => /\ eval.r[1] # "loop" /\ eval.r[2] # "loop"
           /\ eval.a + eval.b <= 16384

\* C26, amended: every gen_pp_lookahead terminates, each loop leaving within
\* 16384 passes, and each loop calls msin_sq015 at most 16383 times, so the
\* two together at most 32766 times.
C26_EachScanBounded ==
    eval.f = "gen_pp_lookahead" /\ eval.done
        => /\ eval.r[1] \in {"break", "return"}
           /\ eval.r[2] \in {"break", "return", "skip"}
           /\ eval.a \in 0..16383
           /\ eval.b \in 0..16383
           /\ eval.a + eval.b <= 32766

\* At frequency 1 from phase 8846 with att 65532 both loops have left with
\* break and made more than 16384 calls together.
C26_Witness ==
    /\ eval.f = "gen_pp_lookahead" /\ eval.done
    /\ run.freq = 1 /\ run.phi = 8846 /\ run.att = 65532
    /\ eval.r = <<"break", "break">>
    /\ eval.a + eval.b > 16384

\* C27: each scan of the lookahead is abandoned as soon as the scanned phase
\* has advanced by 0x4000 or more from its start, modulo 2^16, or its count
\* has reached 0x4000, wherever it starts: a scan calls msin_sq015 only at
\* phases less than 0x4000 past its start, and pp = 0 when the first scan is
\* abandoned.
C27_ScanStaysInQuadrant ==
    eval.f = "gen_pp_lookahead" /\ eval.done
        => /\ eval.a * run.freq < 16384
           /\ eval.b * run.freq < 16384
           /\ eval.a < 16384 /\ eval.b < 16384
           /\ eval.r[1] = "return" \/ eval.r[2] = "return" => gen.pp = 0

-----------------------------------------------------------------------------
(* The general path of msin_sq015, checked under SpecMsin.                 *)

\* The phase phi1 folded from phi, the attenuated sine usin at it and the
\* result r of msin_sq015: r is usin / 2 rounded half up and saturated at
\* 0x7FFF, negated in the second half of the period.
FoldedAndRounded(phi, phi1, usin, r) ==
    /\ phi1 \in 0..16383
    /\ phi1 \div 64 \in 0..255
    /\ usin \in 0..65535
    /\ Abs(r) = Min(32767, (usin + 1) \div 2)
    /\ phi < 32768 => r >= 0
    /\ phi >= 32768 => r <= 0
    /\ r \in -32767..32767

AttenuatedAt(phi1, att) == msin_att(qsin_uq016(phi1), att)

\* C28: for every att and every phase other than 0x4000 and 0xC000
\* msin_sq015 folds the phase into 0..0x3FFF, which keeps the index into the
\* table within 0..255, and returns usin / 2 rounded half up and saturated
\* at 0x7FFF, with the sign of the half-period: the result is within
\* -0x7FFF..0x7FFF.
C28_GeneralPathRounds ==
    eval.f = "msin_sq015" /\ eval.done /\ eval.a \notin {PI2, PI32}
        => FoldedAndRounded(eval.a, msin_fold(eval.a),
                            AttenuatedAt(msin_fold(eval.a), eval.b), eval.r)

\* msin_sq015(0xBFFE, 0): the phase folds to 0x3FFE, the sine there is
\* 0xFFFF, whose half 0x7FFF is not raised, and the result is -0x7FFF.
C28_Witness ==
    /\ eval = [f |-> "msin_sq015", a |-> 49150, b |-> 0, r |-> -32767, done |-> TRUE]
    /\ msin_fold(eval.a) = 16382
    /\ AttenuatedAt(16382, 0) = 65535

-----------------------------------------------------------------------------
(* Properties of qsin_uq016, checked under SpecQsin.                       *)

\* The interpolation between entry key0 and its neighbour with the weight
\* coef of the neighbour, in unbounded integers; the neighbour of the last
\* entry is 1 and contributes coef.
Interpolated(key0, coef) ==
    qmul_uq016(qsin_lut[key0 + 1], 65536 - coef)
        + (IF key0 = 255 THEN coef ELSE qmul_uq016(qsin_lut[key0 + 2], coef))

\* C29: for every phi in 0..0x3FFF qsin_uq016 returns the table entry
\* phi div 64 when phi mod 64 is 0, and otherwise the interpolation between
\* that entry and the next with coef = (phi mod 64) * 2^10, the neighbour of
\* entry 255 being 1; the sum stays within 16 bits, so the result is the
\* unbounded sum and lies in 0..0xFFFF.
C29_QsinInterpolates ==
    eval.f = "qsin_uq016" /\ eval.done /\ eval.a \in 0..16383
        => /\ eval.a % 64 = 0 => eval.r = qsin_lut[eval.a \div 64 + 1]
           /\ eval.a % 64 # 0
                 => /\ eval.r = Interpolated(eval.a \div 64, (eval.a % 64) * 1024)
                    /\ Interpolated(eval.a \div 64, (eval.a % 64) * 1024) <= 65535
           /\ eval.r \in 0..65535

\* qsin_uq016(0x3FFF): between the last entry 0xFFFF and its neighbour 1
\* with coef = 63 * 2^10, the sum is 0xFFFF and has not wrapped.
C29_Witness ==
    /\ eval = [f |-> "qsin_uq016", a |-> 16383, b |-> 0, r |-> 65535, done |-> TRUE]
    /\ qsin_lut[256] = 65535
    /\ Interpolated(255, 64512) = 65535

-----------------------------------------------------------------------------
(* Independence of two descriptors, checked under SpecInter.               *)

\* The descriptor after n calls of gen_step and no other call.
RECURSIVE StepsAlone(_, _)
StepsAlone(g, n) == IF n = 0 THEN g ELSE StepsAlone(gen_step(g).g, n - 1)

\* The descriptor run() configures with postprocessing en, stepped n times.
AloneAfter(en, n) ==
    StepsAlone(Configure(Uninit(eval.r), run.freq, run.phi, run.att, en).g, n)

\* C30: however the calls of gen_output and gen_step on the two descriptors
\* are interleaved, each descriptor is what its own steps alone make of its
\* configuration, its phase is phi + n * freq whether postprocessing is on or
\* not, and after the same number of steps the two phases are equal.
C30_DescriptorsIndependent ==
    eval.f = "interleave"
        => /\ ~aborted
           /\ gen1 = AloneAfter(0, eval.a)
           /\ gen2 = AloneAfter(1, eval.b)
           /\ gen1.phi = UI16(run.phi + eval.a * run.freq)
           /\ gen2.phi = UI16(run.phi + eval.b * run.freq)
           /\ eval.a = eval.b => gen1.phi = gen2.phi
           /\ last.op = "gen_output(&gen1)"
                 => last.arg = msin_sq015(gen1.phi, gen1.att)

\* gen2 is two steps into its first interval while gen1 has taken five
\* steps, and an output of gen1 was the last call.
C30_Witness ==
    /\ eval.f = "interleave" /\ eval.a = 5 /\ eval.b = 2
    /\ run.freq = 1024 /\ run.att = 65532
    /\ gen2.pp = 1 /\ gen2.sidx = 2 /\ gen2.phi = 2048
    /\ gen1.pp = 0 /\ gen1.phi = 5120
    /\ last.op = "gen_output(&gen1)"

====
